---------------------------- MODULE Spec2Model ----------------------------
(***************************************************************************)
(* A model of idea-deployer: the idea store and slug registry of           *)
(* idea_gen.py and the path filter, change-set applier and iteration       *)
(* orchestrator of iterate_project.py.                                     *)
(*                                                                         *)
(* Text is a sequence of one-character strings, so that lower-casing,      *)
(* splitting on "/", suffix extraction and the like are computed the way   *)
(* the code computes them.                                                 *)
(***************************************************************************)
EXTENDS Integers, Sequences, FiniteSets, TLC

VARIABLES
    rel_path,       \* is_allowed_code_path: the argument
    allowedRet,     \* is_allowed_code_path: the value returned
    pathPc,         \* "call" before the call, "done" after it
    fs,             \* the file system: absolute path -> node
    fs0,            \* the file system when apply_changes was entered
    proj_dir,       \* the project directory being worked on
    changes,        \* apply_changes: the change-set
    idx,            \* apply_changes: position of the for loop in changes
    applied,        \* apply_changes: the applied list
    diskLog,        \* the writes and unlinks apply_changes performed
    exc,            \* the exception that ended the call, "" when none
    pc,             \* where the program is
    crashSite,      \* the step whose exception ended the run, "" when none
    argBase,        \* ensure_unique_slug: base_slug
    argKnown,       \* ensure_unique_slug: existing_slugs
    suffix,         \* ensure_unique_slug: the suffix being probed
    slugRet,        \* ensure_unique_slug: the value returned
    slugPc,         \* "call", "loop" in the while loop, "done"
    today,          \* date.today() of the current run, as a day of the month
    runNo,          \* the number of runs of main started so far
    ideasFile,      \* ideas.json
    bakFile,        \* ideas.bak.json
    all_ideas,      \* idea_gen.main: the loaded store plus the accepted ideas
    existing_slugs, \* idea_gen.main: the slugs in use
    generated,      \* idea_gen.main: the candidates of this run
    gi,             \* idea_gen.main: position of the for loop in generated
    added,          \* idea_gen.main: the number of ideas accepted in this run
    ideaPc,         \* where idea_gen.main is
    projects_to_iterate, \* iterate_project.main: the project directories
    pi,             \* iterate_project.main: position of the for loop in them
    state,          \* iterate_project.main: the loaded state document
    result,         \* iterate_project.main: what generate_code_changes returned
    completed,      \* project directory -> records of its completed iterations
    project_slug,   \* ensure_project_initialized: its arguments in the last call
    idea_text,
    created_date,
    bootCalls,      \* the number of calls of ensure_project_initialized made
    slugArg,        \* slugify: its argument
    slugified,      \* slugify: the value returned
    slugifyPc       \* "call", "done"

pathVars == <<rel_path, allowedRet, pathPc>>
applyVars ==
    <<fs, fs0, proj_dir, changes, idx, applied, diskLog, exc, pc, crashSite>>
slugVars == <<argBase, argKnown, suffix, slugRet, slugPc>>
runVars == <<today, runNo>>
ideaVars ==
    <<ideasFile, bakFile, all_ideas, existing_slugs, generated, gi, added, ideaPc>>

iterVars == <<projects_to_iterate, pi, state, result, completed>>

bootVars == <<project_slug, idea_text, created_date, bootCalls>>
slugifyVars == <<slugArg, slugified, slugifyPc>>
callVars == <<bootVars, slugifyVars>>

vars == <<pathVars, applyVars, slugVars, runVars, ideaVars, iterVars, callVars>>

\* What each part of the program leaves alone.
notPath == <<applyVars, slugVars, runVars, ideaVars, iterVars, callVars>>
notApply == <<pathVars, slugVars, runVars, ideaVars, iterVars, callVars>>
notSlug == <<pathVars, applyVars, runVars, ideaVars, iterVars, callVars>>
notIdea == <<pathVars, applyVars, slugVars, iterVars, callVars>>
notIter == <<pathVars, slugVars, bakFile, all_ideas, existing_slugs, generated,
             gi, added, ideaPc, callVars>>
notBoot == <<pathVars, slugVars, runVars, ideaVars, iterVars, slugifyVars>>
notSlugify == <<pathVars, applyVars, slugVars, runVars, ideaVars, iterVars, bootVars>>

(***************************************************************************)
(* Bounds of the model.                                                    *)
(***************************************************************************)
MaxPathLen == 5
MaxChanges == 2
MaxKnownSuffix == 11
MaxIdeaRuns == 2
MaxRuns == 2
MaxBootCalls == 2
MaxSlugifyLen == 4

(***************************************************************************)
(* Text helpers.                                                           *)
(***************************************************************************)
\* All sequences over S of length at most n.
SeqsUpTo(S, n) == UNION { [1..k -> S] : k \in 0..n }

\* s[from..] (1-based), the empty text when from is past the end.
Drop(s, from) == SubSeq(s, from, Len(s))

\* The last element of a non-empty sequence.
Last(s) == s[Len(s)]

\* Membership of a value among the elements of a sequence.
InSeq(x, s) == \E i \in 1..Len(s) : s[i] = x

(***************************************************************************)
(* iterate_project.py: the allow-lists.                                    *)
(***************************************************************************)
ALLOWED_CODE_EXTENSIONS ==
    { <<".", "p", "y">>,
      <<".", "j", "s">>,
      <<".", "t", "s">>,
      <<".", "t", "s", "x">>,
      <<".", "j", "s", "x">>,
      <<".", "j", "s", "o", "n">>,
      <<".", "y", "a", "m", "l">>,
      <<".", "y", "m", "l">>,
      <<".", "t", "o", "m", "l">>,
      <<".", "i", "n", "i">>,
      <<".", "c", "f", "g">>,
      <<".", "h", "t", "m", "l">>,
      <<".", "c", "s", "s">>,
      <<".", "s", "q", "l">>,
      <<".", "s", "h">>,
      <<".", "t", "x", "t">> }

ALLOWED_CODE_BASENAMES ==
    { <<"D", "o", "c", "k", "e", "r", "f", "i", "l", "e">>,
      <<"M", "a", "k", "e", "f", "i", "l", "e">>,
      <<".", "g", "i", "t", "i", "g", "n", "o", "r", "e">>,
      <<".", "d", "o", "c", "k", "e", "r", "i", "g", "n", "o", "r", "e">> }

(***************************************************************************)
(* pathlib.PurePosixPath, as far as is_allowed_code_path uses it.          *)
(***************************************************************************)
\* str.split("/"): the pieces between the separators, empty pieces kept.
RECURSIVE SplitSlash(_)
SplitSlash(s) ==
    IF \A i \in 1..Len(s) : s[i] # "/"
    THEN <<s>>
    ELSE LET i == CHOOSE k \in 1..Len(s) :
                      s[k] = "/" /\ \A j \in 1..(k - 1) : s[j] # "/"
         IN  <<SubSeq(s, 1, i - 1)>> \o SplitSlash(Drop(s, i + 1))

\* PurePosixPath(s).is_absolute(): the path has a root.
PathIsAbsolute(s) == Len(s) > 0 /\ s[1] = "/"

\* PurePosixPath(s).parts without the root: empty and "." pieces are dropped.
PathSegments(s) ==
    LET keep(seg) == seg # <<>> /\ seg # <<".">>
    IN  SelectSeq(SplitSlash(s), keep)

\* PurePosixPath(s).name: the final component, "" when there is none.
PathName(s) ==
    LET segs == PathSegments(s)
    IN  IF segs = <<>> THEN <<>> ELSE Last(segs)

\* PurePosixPath.suffix of a final component: from its last dot, unless that
\* dot is the first or the last character.
NameSuffix(name) ==
    IF \A i \in 1..Len(name) : name[i] # "."
    THEN <<>>
    ELSE LET i == CHOOSE k \in 1..Len(name) :
                      name[k] = "." /\ \A j \in (k + 1)..Len(name) : name[j] # "."
         IN  IF 1 < i /\ i < Len(name) THEN Drop(name, i) ELSE <<>>

\* is_allowed_code_path with the parent-directory test left out.
is_allowed_code_path_NoDotDot(s) ==
    IF PathIsAbsolute(s) \/ PathSegments(s) = <<>>
    THEN FALSE
    ELSE \/ NameSuffix(PathName(s)) \in ALLOWED_CODE_EXTENSIONS
         \/ PathName(s) \in ALLOWED_CODE_BASENAMES

\* is_allowed_code_path with the absolute-path test left out.
is_allowed_code_path_NoAbsolute(s) ==
    IF PathSegments(s) = <<>> \/ InSeq(<<".", ".">>, PathSegments(s))
    THEN FALSE
    ELSE \/ NameSuffix(PathName(s)) \in ALLOWED_CODE_EXTENSIONS
         \/ PathName(s) \in ALLOWED_CODE_BASENAMES

is_allowed_code_path(s) ==
    IF \/ PathIsAbsolute(s)
       \/ PathSegments(s) = <<>>
       \/ InSeq(<<".", ".">>, PathSegments(s))
    THEN FALSE
    ELSE IF NameSuffix(PathName(s)) \in ALLOWED_CODE_EXTENSIONS
         THEN TRUE
         ELSE PathName(s) \in ALLOWED_CODE_BASENAMES

(***************************************************************************)
(* Text values and file contents.  A file's content is a text; what        *)
(* matters of a text is what json.loads makes of it: form "text" is not    *)
(* JSON, "array" is JSON but no object, "object" is a JSON object with     *)
(* the fields meta (slug, idea, created_date) and iterations.  Forms       *)
(* "absent" and "number" are the values of a change's content that are not *)
(* text.                                                                   *)
(***************************************************************************)
Text(t) == [form |-> "text", txt |-> t, meta |-> <<>>, iterations |-> <<>>]
NoData == [form |-> "none", txt |-> "", meta |-> <<>>, iterations |-> <<>>]
AbsentContent == [form |-> "absent", txt |-> "", meta |-> <<>>, iterations |-> <<>>]
NumberContent == [form |-> "number", txt |-> "", meta |-> <<>>, iterations |-> <<>>]

\* isinstance(content, str) taken to hold of every content.
IsStr_Always(c) == TRUE

\* isinstance(content, str)
IsStr(c) == c.form \in {"text", "array", "object"}

LowerChar(c) ==
    CASE c = "A" -> "a"
      [] c = "B" -> "b"
      [] c = "C" -> "c"
      [] c = "D" -> "d"
      [] c = "E" -> "e"
      [] c = "F" -> "f"
      [] c = "G" -> "g"
      [] c = "H" -> "h"
      [] c = "I" -> "i"
      [] c = "J" -> "j"
      [] c = "K" -> "k"
      [] c = "L" -> "l"
      [] c = "M" -> "m"
      [] c = "N" -> "n"
      [] c = "O" -> "o"
      [] c = "P" -> "p"
      [] c = "Q" -> "q"
      [] c = "R" -> "r"
      [] c = "S" -> "s"
      [] c = "T" -> "t"
      [] c = "U" -> "u"
      [] c = "V" -> "v"
      [] c = "W" -> "w"
      [] c = "X" -> "x"
      [] c = "Y" -> "y"
      [] c = "Z" -> "z"
      [] OTHER -> c

\* str.lower()
Lower(s) == [i \in 1..Len(s) |-> LowerChar(s[i])]

(***************************************************************************)
(* The file system.  A path is the sequence of its component names from    *)
(* the root; fs maps every existing path to a directory or a regular file. *)
(* The program makes directories and regular files only, so there are no   *)
(* links.                                                                  *)
(***************************************************************************)
DirNode == [kind |-> "dir", data |-> NoData]
FileNode(c) == [kind |-> "file", data |-> c]

Exists_Never(f, p) == FALSE
Exists(f, p) == p \in DOMAIN f
\* target.exists() and target.is_file() taken to hold of every target.
IsFile_Always(f, p) == TRUE
IsFile(f, p) == p \in DOMAIN f /\ f[p].kind = "file"
IsDir(f, p) == p \in DOMAIN f /\ f[p].kind = "dir"

Parent(p) == SubSeq(p, 1, Len(p) - 1)
Prefixes(p) == { SubSeq(p, 1, k) : k \in 0..Len(p) }
IsUnder(p, dir) == Len(p) > Len(dir) /\ SubSeq(p, 1, Len(dir)) = dir

\* The directory reached from `at` by the components segs, ".." going up.
RECURSIVE Walk(_, _)
Walk(at, segs) ==
    IF segs = <<>> THEN at
    ELSE IF Head(segs) = <<".", ".">>
         THEN Walk(IF at = <<>> THEN <<>> ELSE Parent(at), Tail(segs))
         ELSE Walk(Append(at, Head(segs)), Tail(segs))

\* project_dir / Path(path): an absolute path replaces project_dir.
JoinPath(dir, path) ==
    Walk(IF PathIsAbsolute(path) THEN <<>> ELSE dir, PathSegments(path))

\* Path.mkdir(parents=True, exist_ok=True) raises when a component is a file.
MkdirRaises(f, d) == \E q \in Prefixes(d) : IsFile(f, q)
Mkdir(f, d) ==
    [q \in DOMAIN f \cup Prefixes(d) |-> IF q \in DOMAIN f THEN f[q] ELSE DirNode]

\* Path.write_text raises when the target is a directory.
WriteRaises(f, p) == IsDir(f, p)
WriteText_KeepExisting(f, p, c) ==
    [q \in DOMAIN f \cup {p} |-> IF q \in DOMAIN f THEN f[q] ELSE FileNode(c)]
WriteText(f, p, c) ==
    [q \in DOMAIN f \cup {p} |-> IF q = p THEN FileNode(c) ELSE f[q]]

\* Path.unlink
Unlink(f, p) == [q \in DOMAIN f \ {p} |-> f[q]]

(***************************************************************************)
(* iterate_project.py: apply_changes.                                      *)
(***************************************************************************)
A_create == <<"c", "r", "e", "a", "t", "e">>
A_update == <<"u", "p", "d", "a", "t", "e">>
A_delete == <<"d", "e", "l", "e", "t", "e">>

\* One pass of the for loop over `change`.  fs is the file system after it,
\* rec the entries appended to applied, ops the writes and unlinks done,
\* exc the exception that left the loop ("" when none).  unlinkOk is
\* whether the operating system lets the unlink succeed.
apply_one(f, dir, change, unlinkOk) ==
    LET skip == [fs |-> f, rec |-> <<>>, ops |-> <<>>, exc |-> ""]
    IN  IF change.shape # "dict"
        THEN [skip EXCEPT !.exc = "AttributeError"]
        ELSE
        LET path == change.path
            action == Lower(change.action)
            target == JoinPath(dir, path)
            made == Mkdir(f, Parent(target))
            entry == [path |-> path, action |-> action]
        IN  IF action \notin {A_create, A_update, A_delete}
               \/ ~is_allowed_code_path(path)
            THEN skip
            ELSE IF action \in {A_create, A_update}
            THEN IF ~IsStr(change.content)
                 THEN skip
                 ELSE IF MkdirRaises(f, Parent(target))
                 THEN [skip EXCEPT !.exc = "FileExistsError"]
                 ELSE IF WriteRaises(made, target)
                 THEN [skip EXCEPT !.fs = made, !.exc = "IsADirectoryError"]
                 ELSE [fs |-> WriteText(made, target, change.content),
                       rec |-> <<entry>>,
                       ops |-> <<[op |-> "write", at |-> target]>>,
                       exc |-> ""]
            ELSE IF IsFile(f, target) /\ unlinkOk
                 THEN [fs |-> Unlink(f, target),
                       rec |-> <<entry>>,
                       ops |-> <<[op |-> "unlink", at |-> target]>>,
                       exc |-> ""]
                 ELSE skip

\* The disk operations of iteration i of the loop, tagged with i.
Tagged(ops, i) ==
    [k \in 1..Len(ops) |-> [idx |-> i, op |-> ops[k].op, at |-> ops[k].at]]

\* One iteration of the for loop of apply_changes.
ApplyStep ==
    /\ pc = "apply"
    /\ idx <= Len(changes)
    /\ \E unlinkOk \in BOOLEAN :
          LET r == apply_one(fs, proj_dir, changes[idx], unlinkOk)
          IN  /\ fs' = r.fs
              /\ applied' = applied \o r.rec
              /\ diskLog' = diskLog \o Tagged(r.ops, idx)
              /\ exc' = r.exc
              /\ IF r.exc = ""
                 THEN idx' = idx + 1 /\ pc' = "apply" /\ UNCHANGED crashSite
                 ELSE idx' = idx /\ pc' = "raised" /\ crashSite' = "apply"
    /\ UNCHANGED <<fs0, proj_dir, changes>>

\* The loop is over: return applied.
ApplyReturn ==
    /\ pc = "apply"
    /\ idx > Len(changes)
    /\ pc' = "applied"
    /\ UNCHANGED <<fs, fs0, proj_dir, changes, idx, applied, diskLog, exc, crashSite>>

(***************************************************************************)
(* idea_gen.py: ensure_unique_slug.                                        *)
(***************************************************************************)
DigitChar(d) ==
    CASE d = 0 -> "0" [] d = 1 -> "1" [] d = 2 -> "2" [] d = 3 -> "3"
      [] d = 4 -> "4" [] d = 5 -> "5" [] d = 6 -> "6" [] d = 7 -> "7"
      [] d = 8 -> "8" [] d = 9 -> "9"

\* str(n) of a natural number: its decimal digits.
RECURSIVE IntToStr(_)
IntToStr(n) ==
    IF n < 10 THEN <<DigitChar(n)>>
    ELSE Append(IntToStr(n \div 10), DigitChar(n % 10))

\* f"{base_slug}{suffix}": the separator left out.
SlugCandidate_NoDash(base, n) == base \o IntToStr(n)

\* f"{base_slug}-{suffix}"
SlugCandidate(base, n) == base \o <<"-">> \o IntToStr(n)

\* The suffix the while loop starts from.
FirstSuffix == 2

\* The while loop from suffix n on, as a function of its arguments.
RECURSIVE ProbeFrom(_, _, _)
ProbeFrom(base, known, n) ==
    IF SlugCandidate(base, n) \notin known
    THEN SlugCandidate(base, n)
    ELSE ProbeFrom(base, known, n + 1)

\* ensure_unique_slug without the probing.
ensure_unique_slug_NoProbe(base, known) == base

ensure_unique_slug(base, known) ==
    IF base \notin known THEN base ELSE ProbeFrom(base, known, FirstSuffix)

\* The call up to the while loop.
EnsureEnter ==
    /\ slugPc = "call"
    /\ IF argBase \notin argKnown
       THEN slugRet' = argBase /\ slugPc' = "done" /\ UNCHANGED suffix
       ELSE suffix' = FirstSuffix /\ slugPc' = "loop" /\ UNCHANGED slugRet
    /\ UNCHANGED <<argBase, argKnown>>

\* One pass of the while loop.
EnsureProbe ==
    /\ slugPc = "loop"
    /\ IF SlugCandidate(argBase, suffix) \notin argKnown
       THEN /\ slugRet' = SlugCandidate(argBase, suffix)
            /\ slugPc' = "done"
            /\ UNCHANGED suffix
       ELSE /\ suffix' = suffix + 1
            /\ UNCHANGED <<slugRet, slugPc>>
    /\ UNCHANGED <<argBase, argKnown>>

(***************************************************************************)
(* idea_gen.py: normalize, the blacklist, is_duplicate, slugify.           *)
(***************************************************************************)
BLACKLIST_KEYWORDS ==
    { <<"f", "i", "t", "n", "e", "s", "s">>,
      <<"h", "a", "b", "i", "t", " ", "t", "r", "a", "c", "k", "e", "r">>,
      <<"t", "o", "-", "d", "o">>,
      <<"t", "o", "d", "o">>,
      <<"j", "o", "u", "r", "n", "a", "l">>,
      <<"r", "e", "c", "i", "p", "e">>,
      <<"q", "u", "o", "t", "e">>,
      <<"c", "h", "a", "t", "b", "o", "t">>,
      <<"w", "e", "a", "t", "h", "e", "r">>,
      <<"b", "l", "o", "g">>,
      <<"r", "e", "m", "i", "n", "d", "e", "r">> }

\* The characters str.split() splits on.
IsSpace(c) == c \in {" ", "\t", "\n", "\r"}

\* str.split(): the maximal runs of characters that are not white space.
RECURSIVE Words(_)
Words(s) ==
    IF s = <<>> THEN <<>>
    ELSE IF IsSpace(Head(s)) THEN Words(Tail(s))
    ELSE LET n == IF \E k \in 1..Len(s) : IsSpace(s[k])
                  THEN (CHOOSE k \in 1..Len(s) :
                            IsSpace(s[k]) /\ \A j \in 1..(k - 1) : ~IsSpace(s[j])) - 1
                  ELSE Len(s)
         IN  <<SubSeq(s, 1, n)>> \o Words(Drop(s, n + 1))

\* " ".join(words)
RECURSIVE JoinSpace(_)
JoinSpace(ws) ==
    IF ws = <<>> THEN <<>>
    ELSE IF Len(ws) = 1 THEN Head(ws)
    ELSE Head(ws) \o <<" ">> \o JoinSpace(Tail(ws))

\* normalize without the lower-casing.
normalize_NoLower(text) == JoinSpace(Words(text))

normalize(text) == JoinSpace(Words(Lower(text)))

\* kw in text
IsSubstring(kw, text) ==
    \E i \in 1..(Len(text) - Len(kw) + 1) : SubSeq(text, i, i + Len(kw) - 1) = kw

contains_blacklisted_keyword(text) ==
    \E kw \in BLACKLIST_KEYWORDS : IsSubstring(kw, normalize(text))

is_duplicate(existing_ideas, candidate) ==
    LET seen == { normalize(existing_ideas[i].idea) : i \in 1..Len(existing_ideas) }
                    \ {<<>>}
    IN  normalize(candidate) \in seen

\* The characters of [a-z0-9].
SlugChars ==
    {"a", "b", "c", "d", "e", "f", "g", "h", "i", "j", "k", "l", "m", "n", "o",
     "p", "q", "r", "s", "t", "u", "v", "w", "x", "y", "z",
     "0", "1", "2", "3", "4", "5", "6", "7", "8", "9"}

\* re.sub(r"[^a-z0-9]+", "-", value): out is what has been produced so far.
RECURSIVE SubNonAlnum(_, _)
SubNonAlnum(s, out) ==
    IF s = <<>> THEN out
    ELSE IF Head(s) \in SlugChars
         THEN SubNonAlnum(Tail(s), Append(out, Head(s)))
         ELSE IF out # <<>> /\ Last(out) = "-"
              THEN SubNonAlnum(Tail(s), out)
              ELSE SubNonAlnum(Tail(s), Append(out, "-"))

\* re.sub(r"-+", "-", value)
RECURSIVE CollapseDashes(_)
CollapseDashes(s) ==
    IF Len(s) < 2 THEN s
    ELSE IF s[1] = "-" /\ s[2] = "-"
         THEN CollapseDashes(Tail(s))
         ELSE <<Head(s)>> \o CollapseDashes(Tail(s))

\* value.strip("-")
RECURSIVE StripDashes(_)
StripDashes(s) ==
    IF s = <<>> THEN s
    ELSE IF Head(s) = "-" THEN StripDashes(Tail(s))
    ELSE IF Last(s) = "-" THEN StripDashes(SubSeq(s, 1, Len(s) - 1))
    ELSE s

\* The length slugify cuts its result to.
SLUG_MAX_LEN == 60

slugify(value) ==
    LET v == StripDashes(CollapseDashes(SubNonAlnum(Lower(value), <<>>)))
    IN  IF Len(v) > SLUG_MAX_LEN THEN SubSeq(v, 1, SLUG_MAX_LEN) ELSE v

(***************************************************************************)
(* idea_gen.py: the idea store file and main.  ideas.json is absent, holds *)
(* a JSON list of records ("list"), holds JSON that is no list             *)
(* ("notlist"), does not parse ("corrupt"), or holds bytes that are no     *)
(* UTF-8 text ("undecodable"); txt tells one such content from another.    *)
(***************************************************************************)
AbsentFile == [form |-> "absent", txt |-> "", records |-> <<>>]
ListFile(recs) == [form |-> "list", txt |-> "", records |-> recs]
CorruptFile(t) == [form |-> "corrupt", txt |-> t, records |-> <<>>]
NotListFile == [form |-> "notlist", txt |-> "{}", records |-> <<>>]
UndecodableFile(t) == [form |-> "undecodable", txt |-> t, records |-> <<>>]

load_ideas_Empty(file) == <<>>

\* load_ideas: the list it returns.
load_ideas(file) == IF file.form = "list" THEN file.records ELSE <<>>

\* date.today().isoformat() for day d of November 2026.
IsoDate(d) ==
    <<"2", "0", "2", "6", "-", "1", "1", "-">>
        \o (IF d < 10 THEN <<"0">> ELSE <<>>) \o IntToStr(d)

S_project_dash == <<"p", "r", "o", "j", "e", "c", "t", "-">>

\* The record main appends for an accepted idea.
IdeaRecord(d, idea, slug) ==
    [date |-> d, idea |-> idea, project_slug |-> slug, status |-> "new"]

\* main up to the generator call: today, load_ideas (which copies a corrupt
\* store to the backup file, unless that write fails) and existing_slugs.
\* Decoding the file raises UnicodeDecodeError, which load_ideas does not
\* catch, when its bytes are no UTF-8 text.
IdeaStart ==
    /\ ideaPc \in {"start", "end", "raised"}
    /\ runNo < MaxIdeaRuns
    /\ runNo' = runNo + 1
    /\ today' \in {today, today + 1}
    /\ IF ideasFile.form = "undecodable"
       THEN /\ ideaPc' = "raised"
            /\ UNCHANGED <<bakFile, all_ideas, existing_slugs, generated, gi, added>>
       ELSE /\ all_ideas' = load_ideas(ideasFile)
            /\ \/ /\ ideasFile.form = "corrupt"
                  /\ bakFile' = ideasFile
               \/ UNCHANGED bakFile
            /\ existing_slugs' =
                  { sl \in { all_ideas'[i].project_slug : i \in 1..Len(all_ideas') } :
                        sl # <<>> }
            /\ generated' = <<>>
            /\ gi' = 1
            /\ added' = 0
            /\ ideaPc' = "generate"
    /\ UNCHANGED ideasFile

\* generate_ideas_via_openai raised: main reports it and returns.
IdeaGenerateFails ==
    /\ ideaPc = "generate"
    /\ ideaPc' = "end"
    /\ UNCHANGED <<runVars, ideasFile, bakFile, all_ideas, existing_slugs,
                   generated, gi, added>>

\* The base slug of an idea: slugify, or project-<today> when that is empty.
BaseSlug(idea, d) ==
    IF slugify(idea) = <<>> THEN S_project_dash \o IsoDate(d) ELSE slugify(idea)

\* One pass of the for loop of main over the candidate generated[gi].
IdeaStep ==
    /\ ideaPc = "loop"
    /\ gi <= Len(generated)
    /\ gi' = gi + 1
    /\ LET idea == generated[gi]
           unique_slug == ensure_unique_slug(BaseSlug(idea, today), existing_slugs)
       IN  IF contains_blacklisted_keyword(idea) \/ is_duplicate(all_ideas, idea)
           THEN UNCHANGED <<all_ideas, existing_slugs, added>>
           ELSE /\ existing_slugs' = existing_slugs \cup {unique_slug}
                /\ all_ideas' = Append(all_ideas, IdeaRecord(today, idea, unique_slug))
                /\ added' = added + 1
    /\ UNCHANGED <<runVars, ideasFile, bakFile, generated, ideaPc>>

\* The end of main: save_ideas when an idea was added.
IdeaFinish ==
    /\ ideaPc = "loop"
    /\ gi > Len(generated)
    /\ ideasFile' = IF added > 0 THEN ListFile(all_ideas) ELSE ideasFile
    /\ ideaPc' = "end"
    /\ UNCHANGED <<runVars, bakFile, all_ideas, existing_slugs, generated, gi, added>>

(***************************************************************************)
(* The world the program runs in.                                          *)
(***************************************************************************)
S_app == <<"a", "p", "p">>
S_projects == <<"p", "r", "o", "j", "e", "c", "t", "s">>
S_p == <<"p">>
S_q == <<"q">>
S_secret_py == <<"s", "e", "c", "r", "e", "t", ".", "p", "y">>
S_e_py == <<"e", ".", "p", "y">>
S_a_py == <<"a", ".", "p", "y">>
S_b_py == <<"b", ".", "p", "y">>
S_state_json == <<"s", "t", "a", "t", "e", ".", "j", "s", "o", "n">>

\* Path(__file__).parent, and the projects directory under it.
PROJECT_ROOT == <<S_app>>
PROJECTS_DIR == PROJECT_ROOT \o <<S_projects>>

\* A state document as ensure_project_initialized writes it.
InitialDoc(slug, idea, created) ==
    [form |-> "object", txt |-> "", meta |-> <<slug, idea, created>>,
     iterations |-> <<>>]

\* The file system with the directories dirs and the files of the function
\* files (path -> content).
MakeFs(dirs, files) ==
    [q \in dirs \cup DOMAIN files |->
        IF q \in dirs THEN DirNode ELSE FileNode(files[q])]

\* Two files outside every project directory: one beside the project
\* directories, one at the root.
OutsideFiles ==
    (PROJECTS_DIR \o <<S_secret_py>>) :> Text("s") @@ (<<S_e_py>>) :> Text("s")

(***************************************************************************)
(* iterate_project.py: main.  A run discovers the projects, then for each  *)
(* one loads its state document, asks the generator for a change-set,      *)
(* applies it and records the iteration.  An exception that no handler     *)
(* catches ends the run: pc = "raised", exc and crashSite say which.       *)
(***************************************************************************)
\* str.strip()
RECURSIVE StripLeft(_)
StripLeft(s) ==
    IF s # <<>> /\ IsSpace(Head(s)) THEN StripLeft(Tail(s)) ELSE s

RECURSIVE StripRight(_)
StripRight(s) ==
    IF s # <<>> /\ IsSpace(Last(s))
    THEN StripRight(SubSeq(s, 1, Len(s) - 1)) ELSE s

Strip(s) == StripRight(StripLeft(s))

StateFile(dir) == dir \o <<S_state_json>>

\* ensure_project_initialized: the directories, and the state document when
\* nothing exists under its name.
ensure_project_initialized(f, slug, text, created) ==
    LET dir == JoinPath(PROJECTS_DIR, slug)
        made == Mkdir(f, dir)
    IN  IF MkdirRaises(f, dir)
        THEN [fs |-> f, dir |-> dir, exc |-> "FileExistsError"]
        ELSE IF Exists(made, StateFile(dir))
        THEN [fs |-> made, dir |-> dir, exc |-> ""]
        ELSE [fs |-> WriteText(made, StateFile(dir),
                               InitialDoc(slug, text,
                                          IF created = <<>> THEN IsoDate(today)
                                          ELSE created)),
              dir |-> dir, exc |-> ""]

\* The first loop of main over the records of ideas.json.
RECURSIVE DiscoverFrom(_, _, _, _)
DiscoverFrom(items, f, processed_slugs, projs) ==
    IF items = <<>>
    THEN [fs |-> f, projects |-> projs, exc |-> ""]
    ELSE
    LET item == Head(items)
        stripped == Strip(item.idea)
        slug == IF item.project_slug # <<>> THEN item.project_slug
                ELSE slugify(stripped)
        made == ensure_project_initialized(f, slug, stripped, IsoDate(item.date))
    IN  IF stripped = <<>> \/ slug = <<>> \/ slug \in processed_slugs
        THEN DiscoverFrom(Tail(items), f, processed_slugs, projs)
        ELSE IF made.exc # ""
        THEN [fs |-> f, projects |-> projs, exc |-> made.exc]
        ELSE DiscoverFrom(Tail(items), made.fs, processed_slugs \cup {slug},
                          Append(projs, made.dir))

\* find_projects: the directories directly under PROJECTS_DIR.
find_projects(f) ==
    { d \in DOMAIN f : IsDir(f, d) /\ d # <<>> /\ Parent(d) = PROJECTS_DIR }

\* The orders in which iterdir may yield the directories ds.
Orderings(ds) ==
    { sq \in [1..Cardinality(ds) -> ds] :
        \A i, j \in 1..Cardinality(ds) : i # j => sq[i] # sq[j] }

\* What generate_code_changes returned: a JSON value that is an object
\* ("dict") or not, its summary, and its changes (a list, or a number).
NoResult == [shape |-> "none", summary |-> <<>>, chform |-> "list", changes |-> <<>>]

IterationRecord_NoApplied(d, summary, done) ==
    [date |-> IsoDate(d), summary |-> summary, applied |-> <<>>]

\* The record main appends to the iterations of the state document.
IterationRecord(d, summary, done) ==
    [date |-> IsoDate(d), summary |-> summary, applied |-> done]

\* The start of main: today, the first loop, and the fallback.
IterDiscover ==
    /\ pc \in {"start", "done", "raised"}
    /\ runNo < MaxRuns
    /\ runNo' = runNo + 1
    /\ today' \in {today, today + 1}
    /\ LET found == DiscoverFrom(load_ideas(ideasFile), fs, {}, <<>>)
       IN  /\ fs' = found.fs
           /\ IF found.exc # ""
              THEN /\ pc' = "raised" /\ exc' = found.exc
                   /\ crashSite' = "discover"
                   /\ projects_to_iterate' = found.projects
              ELSE /\ exc' = "" /\ crashSite' = ""
                   /\ IF found.projects # <<>>
                      THEN /\ projects_to_iterate' = found.projects
                           /\ pc' = "load"
                      ELSE /\ projects_to_iterate' \in Orderings(find_projects(fs))
                           /\ pc' = IF find_projects(fs) = {} THEN "done" ELSE "load"
    /\ pi' = 1
    /\ state' = NoData
    /\ result' = NoResult
    /\ UNCHANGED <<fs0, proj_dir, changes, idx, applied, diskLog, ideasFile,
                   completed, notIter>>

\* The for loop of main is over.
IterEnd ==
    /\ pc = "load"
    /\ pi > Len(projects_to_iterate)
    /\ pc' = "done"
    /\ UNCHANGED <<fs, fs0, proj_dir, changes, idx, applied, diskLog, exc,
                   crashSite, runVars, ideasFile, iterVars, notIter>>

\* load_state for the next project: None skips the project; read_text of a
\* directory raises, and only JSONDecodeError is caught.
IterLoadState ==
    /\ pc = "load"
    /\ pi <= Len(projects_to_iterate)
    /\ LET dir == projects_to_iterate[pi]
           sf == StateFile(dir)
       IN  /\ proj_dir' = dir
           /\ IF ~Exists(fs, sf)
              THEN /\ pi' = pi + 1
                   /\ UNCHANGED <<state, pc, exc, crashSite>>
              ELSE IF IsDir(fs, sf)
              THEN /\ pc' = "raised" /\ exc' = "IsADirectoryError"
                   /\ crashSite' = "load_state"
                   /\ UNCHANGED <<state, pi>>
              ELSE IF fs[sf].data.form \in {"object", "array"}
              THEN /\ state' = fs[sf].data
                   /\ pc' = "generate"
                   /\ UNCHANGED <<pi, exc, crashSite>>
              ELSE /\ pi' = pi + 1
                   /\ UNCHANGED <<state, pc, exc, crashSite>>
    /\ UNCHANGED <<fs, fs0, changes, idx, applied, diskLog, runVars, ideasFile,
                   projects_to_iterate, result, completed, notIter>>

\* generate_code_changes raised: main reports it and goes on.
IterGenerateFails ==
    /\ pc = "generate"
    /\ pi' = pi + 1
    /\ pc' = "load"
    /\ UNCHANGED <<fs, fs0, proj_dir, changes, idx, applied, diskLog, exc,
                   crashSite, runVars, ideasFile, projects_to_iterate, state,
                   result, completed, notIter>>

\* generate_code_changes returned r: summary and changes are read from it
\* outside the try, and apply_changes is entered.
IterTake(r) ==
    /\ pc = "generate"
    /\ result' = r
    /\ fs0' = fs
    /\ idx' = 1
    /\ applied' = <<>>
    /\ diskLog' = <<>>
    /\ IF r.shape # "dict"
       THEN /\ pc' = "raised" /\ exc' = "AttributeError"
            /\ crashSite' = "result"
            /\ UNCHANGED changes
       ELSE IF r.chform # "list"
       THEN /\ pc' = "raised" /\ exc' = "TypeError"
            /\ crashSite' = "changes"
            /\ UNCHANGED changes
       ELSE /\ changes' = r.changes
            /\ pc' = "apply"
            /\ UNCHANGED <<exc, crashSite>>
    /\ UNCHANGED <<fs, proj_dir, runVars, ideasFile, projects_to_iterate, pi,
                   state, completed, notIter>>

\* The record step: the iteration is appended to the loaded document and
\* the document is written back.
IterRecord ==
    /\ pc = "applied"
    /\ LET sf == StateFile(proj_dir)
           rec == IterationRecord(today, Strip(result.summary), applied)
           doc == [state EXCEPT !.iterations = Append(@, rec)]
       IN  IF state.form # "object"
           THEN /\ pc' = "raised" /\ exc' = "AttributeError"
                /\ crashSite' = "record"
                /\ UNCHANGED <<fs, state, pi, completed>>
           ELSE IF WriteRaises(fs, sf)
           THEN /\ pc' = "raised" /\ exc' = "IsADirectoryError"
                /\ crashSite' = "record"
                /\ state' = doc
                /\ UNCHANGED <<fs, pi, completed>>
           ELSE /\ fs' = WriteText(fs, sf, doc)
                /\ state' = doc
                /\ completed' = [completed EXCEPT ![proj_dir] = Append(@, rec)]
                /\ pi' = pi + 1
                /\ pc' = "load"
                /\ UNCHANGED <<exc, crashSite>>
    /\ UNCHANGED <<fs0, proj_dir, changes, idx, applied, diskLog, runVars,
                   ideasFile, projects_to_iterate, result, notIter>>

CallIdle ==
    /\ project_slug = <<>>
    /\ idea_text = <<>>
    /\ created_date = <<>>
    /\ bootCalls = 0
    /\ slugArg = <<>>
    /\ slugified = <<>>
    /\ slugifyPc = "idle"

IterIdle ==
    /\ projects_to_iterate = <<>>
    /\ pi = 1
    /\ state = NoData
    /\ result = NoResult
    /\ completed = <<>>

IdeaIdle ==
    /\ today = 1
    /\ runNo = 0
    /\ ideasFile = AbsentFile
    /\ bakFile = AbsentFile
    /\ all_ideas = <<>>
    /\ existing_slugs = {}
    /\ generated = <<>>
    /\ gi = 1
    /\ added = 0
    /\ ideaPc = "idle"

SlugIdle ==
    /\ argBase = <<>>
    /\ argKnown = {}
    /\ suffix = 0
    /\ slugRet = <<>>
    /\ slugPc = "idle"

(***************************************************************************)
(* SpecPath: is_allowed_code_path called once on a text drawn from every   *)
(* text of at most MaxPathLen characters over PathChars, and from a few    *)
(* longer texts that reach the rest of the allow-lists.                    *)
(***************************************************************************)
PathChars == {"/", ".", "a", "p", "y"}

NamedPaths ==
    { <<"D", "o", "c", "k", "e", "r", "f", "i", "l", "e">>,
      <<"d", "/", "M", "a", "k", "e", "f", "i", "l", "e">>,
      <<".", ".", "/", "M", "a", "k", "e", "f", "i", "l", "e">>,
      <<"/", "D", "o", "c", "k", "e", "r", "f", "i", "l", "e">>,
      <<".", "g", "i", "t", "i", "g", "n", "o", "r", "e">>,
      <<"M", "a", "k", "e", "f", "i", "l", "e", ".", "b", "a", "k">>,
      <<"a", ".", "j", "s", "o", "n">>,
      <<"a", ".", "m", "d">>,
      <<"s", "t", "a", "t", "e", ".", "j", "s", "o", "n">>,
      <<"x", "/", ".", "d", "o", "c", "k", "e", "r", "i", "g", "n", "o", "r", "e">>,
      <<"a", ".", "p", "y", "/", ".", ".">>,
      <<".", ".", "/", "a", ".", "p", "y">>,
      <<"a", ".", "t", "s", "x">>,
      <<"R", "E", "A", "D", "M", "E">> }

PathIdle ==
    /\ rel_path = <<>>
    /\ allowedRet = FALSE
    /\ pathPc = "idle"

ApplyIdle ==
    /\ fs = MakeFs({<<>>}, <<>>)
    /\ fs0 = fs
    /\ proj_dir = <<>>
    /\ changes = <<>>
    /\ idx = 1
    /\ applied = <<>>
    /\ diskLog = <<>>
    /\ exc = ""
    /\ pc = "idle"
    /\ crashSite = ""

PathInit ==
    /\ CallIdle
    /\ ApplyIdle
    /\ IterIdle
    /\ SlugIdle
    /\ IdeaIdle
    /\ rel_path \in SeqsUpTo(PathChars, MaxPathLen) \cup NamedPaths
    /\ allowedRet = FALSE
    /\ pathPc = "call"

CallIsAllowed ==
    /\ pathPc = "call"
    /\ allowedRet' = is_allowed_code_path(rel_path)
    /\ pathPc' = "done"
    /\ UNCHANGED <<rel_path, notPath>>

SpecPath == PathInit /\ [][CallIsAllowed]_vars

(***************************************************************************)
(* SpecApply: apply_changes called once on a project directory, with every *)
(* change-set of at most MaxChanges entries over ApplyEntries.             *)
(***************************************************************************)
P_a_py == <<"a", ".", "p", "y">>
P_a_py_b_py == <<"a", ".", "p", "y", "/", "b", ".", "p", "y">>
P_up_secret_py == <<".", ".", "/", "s", "e", "c", "r", "e", "t", ".", "p", "y">>
P_abs_e_py == <<"/", "e", ".", "p", "y">>

ApplyPaths == {P_a_py, P_a_py_b_py, P_up_secret_py, P_abs_e_py}
ApplyActions ==
    { A_create, <<"U", "P", "D", "A", "T", "E">>, A_delete,
      <<"r", "e", "n", "a", "m", "e">> }
ApplyContents == {AbsentContent, Text("x")}

\* An entry that is no JSON object (a string, a number).
NonDictEntry ==
    [shape |-> "str", path |-> <<>>, action |-> <<>>, content |-> AbsentContent]

ApplyEntries ==
    [shape : {"dict"}, path : ApplyPaths, action : ApplyActions,
     content : ApplyContents] \cup {NonDictEntry}

\* The project directory of slug "p": its state document, and under the
\* name a.py a regular file or a directory holding b.py.
ProjectP == PROJECTS_DIR \o <<S_p>>
ApplyTreeDirs == {<<>>, PROJECT_ROOT, PROJECTS_DIR, ProjectP}
ApplyTreeFiles ==
    OutsideFiles @@ (ProjectP \o <<S_state_json>>) :> InitialDoc(S_p, S_p, 1)
ApplyTrees ==
    { MakeFs(ApplyTreeDirs, ApplyTreeFiles @@ (ProjectP \o <<S_a_py>>) :> Text("old")),
      MakeFs(ApplyTreeDirs \cup {ProjectP \o <<S_a_py>>},
             ApplyTreeFiles @@ (ProjectP \o <<S_a_py, S_b_py>>) :> Text("old")) }

ApplyInit ==
    /\ CallIdle
    /\ PathIdle
    /\ IterIdle
    /\ SlugIdle
    /\ IdeaIdle
    /\ fs \in ApplyTrees
    /\ fs0 = fs
    /\ proj_dir = ProjectP
    /\ changes \in SeqsUpTo(ApplyEntries, MaxChanges)
    /\ idx = 1
    /\ applied = <<>>
    /\ diskLog = <<>>
    /\ exc = ""
    /\ pc = "apply"
    /\ crashSite = ""

ApplyNext ==
    \/ ApplyStep /\ UNCHANGED notApply
    \/ ApplyReturn /\ UNCHANGED notApply

SpecApply == ApplyInit /\ [][ApplyNext]_vars

(***************************************************************************)
(* SpecSlug: ensure_unique_slug called once, the base being "a" or "a-2"   *)
(* and the known slugs any set drawn from "a", "a-2" .. "a-<MaxKnownSuffix>",*)
(* "a-2-2" and "b".  The while loop runs on until it returns.              *)
(***************************************************************************)
S_a == <<"a">>
S_a_2 == <<"a", "-", "2">>
S_b == <<"b">>

\* base followed by "-" and the decimal digits of n.
Suffixed(base, n) == base \o <<"-">> \o IntToStr(n)

SlugPool ==
    {S_a, S_b, Suffixed(S_a_2, 2)} \cup { Suffixed(S_a, n) : n \in 2..MaxKnownSuffix }

SlugInit ==
    /\ CallIdle
    /\ PathIdle
    /\ IterIdle
    /\ ApplyIdle
    /\ IdeaIdle
    /\ argBase \in {S_a, S_a_2}
    /\ argKnown \in SUBSET SlugPool
    /\ suffix = 0
    /\ slugRet = <<>>
    /\ slugPc = "call"

SlugNext ==
    \/ EnsureEnter /\ UNCHANGED notSlug
    \/ EnsureProbe /\ UNCHANGED notSlug

SpecSlug == SlugInit /\ [][SlugNext]_vars /\ WF_vars(SlugNext)

(***************************************************************************)
(* SpecIdea: at most MaxIdeaRuns runs of idea_gen.main, one after another, *)
(* from a store that is absent, unparsable, no list, or holds one record;  *)
(* the generator returns up to two of the texts of IdeaTexts, or fails.    *)
(***************************************************************************)
T_a_b == <<"a", " ", "b">>
T_A__b == <<"A", " ", " ", "b">>
T_a_dash_b == <<"a", "-", "b">>
T_a_b_2 == <<"a", "-", "b", "-", "2">>
T_bangs == <<"!", "!">>
T_todo_x == <<"t", "o", "d", "o", " ", "x">>

IdeaTexts == {T_a_b, T_A__b, T_a_dash_b, T_a_b_2, T_bangs, T_todo_x}

IdeaStores ==
    { AbsentFile, CorruptFile("{"), NotListFile, UndecodableFile("\\xff"),
      ListFile(<<IdeaRecord(1, T_a_b, T_a_dash_b)>>) }

\* generate_ideas_via_openai returned: at most two stripped, non-empty texts.
IdeaGenerate ==
    /\ ideaPc = "generate"
    /\ generated' \in SeqsUpTo(IdeaTexts, 2)
    /\ ideaPc' = "loop"
    /\ UNCHANGED <<runVars, ideasFile, bakFile, all_ideas, existing_slugs, gi, added>>

IdeaInit ==
    /\ CallIdle
    /\ PathIdle
    /\ IterIdle
    /\ ApplyIdle
    /\ SlugIdle
    /\ today = 1
    /\ runNo = 0
    /\ ideasFile \in IdeaStores
    /\ bakFile = AbsentFile
    /\ all_ideas = <<>>
    /\ existing_slugs = {}
    /\ generated = <<>>
    /\ gi = 1
    /\ added = 0
    /\ ideaPc = "start"

IdeaNext ==
    \/ IdeaStart /\ UNCHANGED notIdea
    \/ IdeaGenerateFails /\ UNCHANGED notIdea
    \/ IdeaGenerate /\ UNCHANGED notIdea
    \/ IdeaStep /\ UNCHANGED notIdea
    \/ IdeaFinish /\ UNCHANGED notIdea

SpecIdea == IdeaInit /\ [][IdeaNext]_vars

(***************************************************************************)
(* SpecIter: iterate_project.main run MaxRuns times over two projects,     *)
(* discovered from ideas.json or by the fallback, the generator failing or *)
(* returning one of IterResults for each project.                          *)
(***************************************************************************)
ProjectQ == PROJECTS_DIR \o <<S_q>>
IterProjects == {ProjectP, ProjectQ}

\* ideas.json: absent, or four records: one with a project_slug, two
\* without (the idea of the second has no letter or digit), and one with
\* another idea and the project_slug of the first.
IterStores ==
    { AbsentFile,
      ListFile(<<IdeaRecord(1, T_a_b, S_p), IdeaRecord(1, <<" ", "q">>, <<>>),
                 IdeaRecord(1, T_bangs, <<>>), IdeaRecord(1, T_a_dash_b, S_p)>>) }

\* The disk: nothing under the program's directory yet, or both projects
\* with their state documents.
IterTrees ==
    { MakeFs({<<>>, PROJECT_ROOT}, (<<S_e_py>>) :> Text("s")),
      MakeFs({<<>>, PROJECT_ROOT, PROJECTS_DIR, ProjectP, ProjectQ},
             OutsideFiles
             @@ StateFile(ProjectP) :> InitialDoc(S_p, T_a_b, IsoDate(1))
             @@ StateFile(ProjectQ) :> InitialDoc(S_q, S_q, IsoDate(1))) }

Entry(action, path, content) ==
    [shape |-> "dict", path |-> path, action |-> action, content |-> content]

P_state_json == S_state_json
P_state_json_x_py == S_state_json \o <<"/", "x", ".", "p", "y">>

\* A state document with no history, as a change-set may write it.
ForgedDoc == [form |-> "object", txt |-> "", meta |-> <<>>, iterations |-> <<>>]

Result(summary, chs) ==
    [shape |-> "dict", summary |-> summary, chform |-> "list", changes |-> chs]

\* What the generator may return: change-sets that create a file,
\* rewrite the state document (alone, or before an entry that is
\* no object), replace the state document by a directory; a JSON list; an
\* object whose changes is a number.
IterResults ==
    { Result(<<" ", "s", " ">>, <<Entry(A_create, P_a_py, Text("x"))>>),
      Result(<<"f">>, <<Entry(A_update, P_state_json, ForgedDoc), NonDictEntry>>),
      Result(<<"o">>, <<Entry(A_update, P_state_json, ForgedDoc)>>),
      Result(<<"d">>, <<Entry(A_delete, P_state_json, AbsentContent),
                    Entry(A_create, P_state_json_x_py, Text("x"))>>),
      [shape |-> "list", summary |-> <<>>, chform |-> "list", changes |-> <<>>],
      [shape |-> "dict", summary |-> <<"n">>, chform |-> "number", changes |-> <<>>] }

IterGenerate == \E r \in IterResults : IterTake(r)

IterInit ==
    /\ CallIdle
    /\ PathIdle
    /\ SlugIdle
    /\ today = 1
    /\ runNo = 0
    /\ ideasFile \in IterStores
    /\ bakFile = AbsentFile
    /\ all_ideas = <<>>
    /\ existing_slugs = {}
    /\ generated = <<>>
    /\ gi = 1
    /\ added = 0
    /\ ideaPc = "idle"
    /\ fs \in IterTrees
    /\ fs0 = fs
    /\ proj_dir = <<>>
    /\ changes = <<>>
    /\ idx = 1
    /\ applied = <<>>
    /\ diskLog = <<>>
    /\ exc = ""
    /\ pc = "start"
    /\ crashSite = ""
    /\ projects_to_iterate = <<>>
    /\ pi = 1
    /\ state = NoData
    /\ result = NoResult
    /\ completed = [d \in IterProjects |-> <<>>]

IterNext ==
    \/ IterDiscover
    \/ IterEnd
    \/ IterLoadState
    \/ IterGenerateFails
    \/ IterGenerate
    \/ ApplyStep /\ UNCHANGED <<runVars, ideasFile, iterVars, notIter>>
    \/ ApplyReturn /\ UNCHANGED <<runVars, ideasFile, iterVars, notIter>>
    \/ IterRecord

SpecIter == IterInit /\ [][IterNext]_vars

(***************************************************************************)
(* SpecBoot: ensure_project_initialized called MaxBootCalls times, with    *)
(* any slug, idea text and date of the sets below, on a disk where the     *)
(* project has no directory, a directory without state document, a state   *)
(* document with history, an unparsable one, or a directory in its place.  *)
(***************************************************************************)
DocWithHistory ==
    [InitialDoc(S_p, T_a_b, IsoDate(1))
        EXCEPT !.iterations = <<IterationRecord(1, <<"s">>, <<>>)>>]

BootTrees ==
    { MakeFs({<<>>, PROJECT_ROOT}, (<<S_e_py>>) :> Text("s")),
      MakeFs({<<>>, PROJECT_ROOT, PROJECTS_DIR, ProjectP, ProjectQ},
             OutsideFiles @@ StateFile(ProjectP) :> DocWithHistory),
      MakeFs({<<>>, PROJECT_ROOT, PROJECTS_DIR, ProjectP, ProjectQ,
              StateFile(ProjectQ)},
             OutsideFiles @@ StateFile(ProjectP) :> Text("x")) }

BootSlugs == {S_p, S_q}
BootIdeas == {T_a_b, T_todo_x}
BootDates == {<<>>, IsoDate(2)}

BootCall ==
    /\ bootCalls < MaxBootCalls
    /\ bootCalls' = bootCalls + 1
    /\ \E slug \in BootSlugs, text \in BootIdeas, created \in BootDates :
          LET made == ensure_project_initialized(fs, slug, text, created)
          IN  /\ project_slug' = slug
              /\ idea_text' = text
              /\ created_date' = created
              /\ fs0' = fs
              /\ fs' = made.fs
              /\ exc' = made.exc
    /\ UNCHANGED <<proj_dir, changes, idx, applied, diskLog, pc, crashSite, notBoot>>

BootInit ==
    /\ PathIdle
    /\ SlugIdle
    /\ IdeaIdle
    /\ IterIdle
    /\ CallIdle
    /\ fs \in BootTrees
    /\ fs0 = fs
    /\ proj_dir = <<>>
    /\ changes = <<>>
    /\ idx = 1
    /\ applied = <<>>
    /\ diskLog = <<>>
    /\ exc = ""
    /\ pc = "idle"
    /\ crashSite = ""

SpecBoot == BootInit /\ [][BootCall]_vars

(***************************************************************************)
(* SpecOrder: apply_changes called once with every change-set of at most   *)
(* MaxChanges entries that create, update or delete a.py (also written     *)
(* ./a.py) and b.py with two different contents.                           *)
(***************************************************************************)
P_dot_a_py == <<".", "/", "a", ".", "p", "y">>

OrderEntries ==
    [shape : {"dict"}, path : {P_a_py, P_dot_a_py, S_b_py},
     action : {A_create, A_update}, content : {Text("x"), Text("y")}]
    \cup [shape : {"dict"}, path : {P_a_py, S_b_py}, action : {A_delete},
          content : {AbsentContent}]

OrderInit ==
    /\ CallIdle
    /\ PathIdle
    /\ IterIdle
    /\ SlugIdle
    /\ IdeaIdle
    /\ fs = MakeFs(ApplyTreeDirs,
                   ApplyTreeFiles @@ (ProjectP \o <<S_a_py>>) :> Text("old"))
    /\ fs0 = fs
    /\ proj_dir = ProjectP
    /\ changes \in SeqsUpTo(OrderEntries, MaxChanges)
    /\ idx = 1
    /\ applied = <<>>
    /\ diskLog = <<>>
    /\ exc = ""
    /\ pc = "apply"
    /\ crashSite = ""

OrderNext ==
    \/ ApplyStep /\ UNCHANGED notApply
    \/ ApplyReturn /\ UNCHANGED notApply

SpecOrder == OrderInit /\ [][OrderNext]_vars

(***************************************************************************)
(* SpecSlugify: slugify called once on every text of at most MaxSlugifyLen *)
(* characters over SlugifyChars, and on texts around SLUG_MAX_LEN          *)
(* characters long.                                                        *)
(***************************************************************************)
SlugifyChars == {"a", "B", "1", "-", " ", "!"}

Repeat(c, n) == [i \in 1..n |-> c]

LongTexts ==
    { Repeat("a", SLUG_MAX_LEN),
      Repeat("a", SLUG_MAX_LEN + 1),
      Repeat("a", SLUG_MAX_LEN - 1) \o <<"-">>,
      Repeat("a", SLUG_MAX_LEN - 1) \o <<" ", "b">>,
      Repeat("a", SLUG_MAX_LEN - 2) \o <<"!", "!", "b", "c">>,
      Repeat("!", SLUG_MAX_LEN + 1) }

SlugifyInit ==
    /\ PathIdle
    /\ ApplyIdle
    /\ SlugIdle
    /\ IdeaIdle
    /\ IterIdle
    /\ project_slug = <<>>
    /\ idea_text = <<>>
    /\ created_date = <<>>
    /\ bootCalls = 0
    /\ slugArg \in SeqsUpTo(SlugifyChars, MaxSlugifyLen) \cup LongTexts
    /\ slugified = <<>>
    /\ slugifyPc = "call"

CallSlugify ==
    /\ slugifyPc = "call"
    /\ slugified' = slugify(slugArg)
    /\ slugifyPc' = "done"
    /\ UNCHANGED <<slugArg, notSlugify>>

SpecSlugify == SlugifyInit /\ [][CallSlugify]_vars

(***************************************************************************)
(* SpecCrash: the runs of SpecIter over the two bootstrapped projects,     *)
(* where the process may also be stopped between apply_changes and the     *)
(* write of the state document.                                            *)
(***************************************************************************)
\* The process dies after the record was computed and before write_text
\* is entered: nothing more is written.
IterCrash ==
    /\ pc = "applied"
    /\ pc' = "raised"
    /\ exc' = "killed"
    /\ crashSite' = "before_write"
    /\ UNCHANGED <<fs, fs0, proj_dir, changes, idx, applied, diskLog, runVars,
                   ideasFile, iterVars, notIter>>

CrashInit ==
    /\ IterInit
    /\ ideasFile.form = "list"
    /\ StateFile(ProjectP) \in DOMAIN fs

CrashNext ==
    \/ IterNext
    \/ IterCrash

SpecCrash == CrashInit /\ [][CrashNext]_vars

(***************************************************************************)
(* C1.  is_allowed_code_path(path) is true exactly when the path is        *)
(* relative, has at least one segment, has no segment equal to "..", and   *)
(* the final component's extension is in the extension allow-list or its   *)
(* name is in the basename allow-list; so it is false for every path that  *)
(* contains a ".." segment or starts with "/".                             *)
(*                                                                         *)
(* The ".." segment and the leading "/" are read off the characters of the *)
(* text, not off the parsed path.                                          *)
(***************************************************************************)
TextHasDotDotSegment(s) ==
    \E i \in 1..(Len(s) - 1) :
        /\ s[i] = "." /\ s[i + 1] = "."
        /\ (i = 1 \/ s[i - 1] = "/")
        /\ (i + 1 = Len(s) \/ s[i + 2] = "/")

TextStartsWithSlash(s) == s # <<>> /\ Head(s) = "/"

C1_FilterContract ==
    pathPc = "done" =>
        /\ allowedRet =
              ( /\ ~TextStartsWithSlash(rel_path)
                /\ Len(PathSegments(rel_path)) >= 1
                /\ ~TextHasDotDotSegment(rel_path)
                /\ \/ NameSuffix(PathName(rel_path)) \in ALLOWED_CODE_EXTENSIONS
                   \/ PathName(rel_path) \in ALLOWED_CODE_BASENAMES )
        /\ (TextHasDotDotSegment(rel_path) \/ TextStartsWithSlash(rel_path))
              => allowedRet = FALSE

\* The filter has answered for a path whose file type is allowed and that is
\* refused only for its ".." segment.
C1_Witness ==
    /\ pathPc = "done"
    /\ TextHasDotDotSegment(rel_path)
    /\ NameSuffix(PathName(rel_path)) \in ALLOWED_CODE_EXTENSIONS
    /\ allowedRet = FALSE

(***************************************************************************)
(* C2.  apply_changes creates, overwrites or deletes only files under the  *)
(* project directory whose relative path passes is_allowed_code_path;      *)
(* every path outside the project directory exists after the call exactly  *)
(* when it existed before it, with the same content.                       *)
(***************************************************************************)
RECURSIVE JoinSlash(_)
JoinSlash(segs) ==
    IF segs = <<>> THEN <<>>
    ELSE IF Len(segs) = 1 THEN Head(segs)
    ELSE Head(segs) \o <<"/">> \o JoinSlash(Tail(segs))

\* The text of path p relative to the directory dir it lies under.
RelativeText(p, dir) == JoinSlash(Drop(p, Len(dir) + 1))

FileChanged(p) ==
    /\ IsFile(fs, p) \/ IsFile(fs0, p)
    /\ \/ ~Exists(fs, p)
       \/ ~Exists(fs0, p)
       \/ fs[p] # fs0[p]

C2_OnlyAllowedFilesUnderRoot ==
    pc \in {"apply", "applied", "raised"} =>
        /\ \A p \in DOMAIN fs \cup DOMAIN fs0 :
              ~IsUnder(p, proj_dir) =>
                  /\ Exists(fs, p) /\ Exists(fs0, p)
                  /\ fs[p] = fs0[p]
        /\ \A p \in DOMAIN fs \cup DOMAIN fs0 :
              FileChanged(p) =>
                  /\ IsUnder(p, proj_dir)
                  /\ is_allowed_code_path(RelativeText(p, proj_dir))
        /\ \A k \in 1..Len(diskLog) :
              /\ IsUnder(diskLog[k].at, proj_dir)
              /\ is_allowed_code_path(RelativeText(diskLog[k].at, proj_dir))

\* The call returned after a change-set that asked to create ../secret.py
\* and /e.py with text content, and the file system is as it was.
C2_Witness ==
    /\ pc = "applied"
    /\ \E i, j \in 1..Len(changes) :
          /\ changes[i].shape = "dict" /\ changes[j].shape = "dict"
          /\ changes[i].path = P_up_secret_py /\ changes[j].path = P_abs_e_py
          /\ changes[i].action = A_create /\ changes[j].action = A_create
          /\ IsStr(changes[i].content) /\ IsStr(changes[j].content)
    /\ fs = fs0

(***************************************************************************)
(* C3.  The list apply_changes returns holds, in change-set order, exactly *)
(* one {path, action} entry for each change whose write or removal took    *)
(* place on disk: one per create/update that wrote its file, one per       *)
(* delete that removed a regular file, none for a delete whose target is   *)
(* missing, is a directory, or could not be removed.                       *)
(***************************************************************************)
\* Change i wrote or removed a file.
TookEffect(i) == \E k \in 1..Len(diskLog) : diskLog[k].idx = i

EffectiveIndices ==
    LET all == [i \in 1..Len(changes) |-> i]
    IN  SelectSeq(all, TookEffect)

ExpectedApplied ==
    [k \in 1..Len(EffectiveIndices) |->
        [path |-> changes[EffectiveIndices[k]].path,
         action |-> Lower(changes[EffectiveIndices[k]].action)]]

\* p was a regular file when apply_changes was entered.
RegularFileAtEntry(p) == p \in DOMAIN fs0 /\ fs0[p].kind = "file"

C3_AppliedIsWhatHappened ==
    pc = "applied" =>
        /\ applied = ExpectedApplied
        /\ \A k \in 1..Len(diskLog) :
              LET c == changes[diskLog[k].idx]
              IN  /\ diskLog[k].at = JoinPath(proj_dir, c.path)
                  /\ (diskLog[k].op = "write") =
                        (Lower(c.action) \in {A_create, A_update})
                  /\ (diskLog[k].op = "unlink") = (Lower(c.action) = A_delete)
        /\ (/\ Len(changes) >= 1
            /\ Lower(changes[1].action) = A_delete
            /\ ~RegularFileAtEntry(JoinPath(proj_dir, changes[1].path)))
              => ~TookEffect(1)

\* The call returned one recorded create after a change-set that also held
\* a delete that removed nothing.
C3_Witness ==
    /\ pc = "applied"
    /\ Len(changes) = 2
    /\ Len(applied) = 1
    /\ applied[1].action = A_create
    /\ \E i \in 1..2 :
          /\ changes[i].shape = "dict"
          /\ changes[i].action = A_delete
          /\ is_allowed_code_path(changes[i].path)
          /\ ~TookEffect(i)

(***************************************************************************)
(* C4 as stated.  A change whose action is not one of create, update,      *)
(* delete, or whose path fails is_allowed_code_path, or which is a         *)
(* create/update whose content is absent or not text, has no effect: the   *)
(* step over it leaves the file tree and the applied list as they were.    *)
(***************************************************************************)
NoEffectStep == fs' = fs /\ applied' = applied

\* The content of the entry is absent or is not text.
ContentMissing(c) == c.content.form \in {"absent", "number"}

AtEntry == pc = "apply" /\ idx <= Len(changes) /\ changes[idx].shape = "dict"

C4_AsStated ==
    [][ (/\ AtEntry
         /\ \/ changes[idx].action \notin {A_create, A_update, A_delete}
            \/ ~is_allowed_code_path(changes[idx].path)
            \/ /\ changes[idx].action \in {A_create, A_update}
               /\ ContentMissing(changes[idx]))
        => NoEffectStep ]_vars

(***************************************************************************)
(* C4 amended.  A change whose action, lower-cased, is not one of create,  *)
(* update, delete, or whose path fails is_allowed_code_path, or which is   *)
(* a create/update (lower-cased) whose content is absent or not text, has  *)
(* no effect: the step over it leaves the file tree and the applied list   *)
(* as they were.                                                           *)
(***************************************************************************)
C4_SkippedHasNoEffect ==
    [][ (/\ AtEntry
         /\ \/ Lower(changes[idx].action) \notin {A_create, A_update, A_delete}
            \/ ~is_allowed_code_path(changes[idx].path)
            \/ /\ Lower(changes[idx].action) \in {A_create, A_update}
               /\ ContentMissing(changes[idx]))
        => NoEffectStep ]_vars

\* The loop has passed a create of an allowed path that carried no content,
\* and went on to apply the entry after it.
C4_Witness ==
    /\ pc = "applied"
    /\ Len(changes) = 2
    /\ changes[1].shape = "dict"
    /\ changes[1].action = A_create
    /\ changes[1].path = P_a_py
    /\ changes[1].content = AbsentContent
    /\ Len(applied) = 1
    /\ TookEffect(2)

(***************************************************************************)
(* C5.  apply_changes never raises because of an individual entry: for     *)
(* every change-set and every state of the project tree the call returns   *)
(* normally, the entries after a bad entry still being processed.          *)
(***************************************************************************)
C5_NeverRaises == pc # "raised"

(***************************************************************************)
(* C6.  The iteration history of a project is append-only: when a run is   *)
(* over, the iterations of the project's state document on disk are        *)
(* exactly the records of the iterations that completed for it, one per    *)
(* completed iteration, each with the date of its run, in run order.       *)
(* completed holds those records as the record step wrote them.            *)
(***************************************************************************)
RunOver == pc \in {"done", "raised"}

HistoryOnDisk(dir) ==
    IF StateFile(dir) \in DOMAIN fs
       /\ fs[StateFile(dir)].kind = "file"
       /\ fs[StateFile(dir)].data.form = "object"
    THEN fs[StateFile(dir)].data.iterations
    ELSE <<>>

C6_HistoryAppendOnly ==
    RunOver => \A dir \in DOMAIN completed : HistoryOnDisk(dir) = completed[dir]

(***************************************************************************)
(* C7.  Per-project errors are contained to that project: no exception     *)
(* leaves the per-project step because the project's state document cannot *)
(* be read or because of what the generator returned, so the run goes on   *)
(* to the later projects.                                                  *)
(***************************************************************************)
C7_ErrorsContained ==
    ~(pc = "raised" /\ crashSite \in {"load_state", "result", "changes"})

(***************************************************************************)
(* C9.  ensure_unique_slug(base, known) returns base when base is not in   *)
(* known, and otherwise base-k for the smallest k >= 2 such that base-k is *)
(* not in known; the result is never in known, known is left as it was,    *)
(* and the call returns for every finite known.                            *)
(***************************************************************************)
C9_ResultOk ==
    /\ slugRet \notin argKnown
    /\ argBase \notin argKnown => slugRet = argBase
    /\ argBase \in argKnown =>
          \E k \in 2..(Cardinality(argKnown) + 2) :
              /\ slugRet = Suffixed(argBase, k)
              /\ \A j \in 2..(k - 1) : Suffixed(argBase, j) \in argKnown

C9_EnsureUnique ==
    /\ [](slugPc = "done" => C9_ResultOk)
    /\ [][argKnown' = argKnown /\ argBase' = argBase]_vars
    /\ <>(slugPc = "done")

\* The call returned a two-digit suffix: base and base-2 .. base-9 were all
\* known.
C9_Witness ==
    /\ slugPc = "done"
    /\ argBase \in argKnown
    /\ suffix >= 10
    /\ slugRet = Suffixed(argBase, suffix)

(***************************************************************************)
(* C8.  After any sequence of ideation runs from a store with pairwise     *)
(* distinct normalized idea texts, no two records of the idea store have   *)
(* the same normalized idea text (lower-cased, white space collapsed),     *)
(* whatever their dates, two equal candidates of one run included.         *)
(***************************************************************************)
\* The text lower-cased, its runs of white space each made one space and
\* those at its ends removed.
NormalForm(t) == JoinSpace(Words(Lower(t)))

DistinctNormalForms(recs) ==
    Cardinality({ NormalForm(recs[i].idea) : i \in 1..Len(recs) }) = Len(recs)

C8_UniqueIdeas ==
    /\ DistinctNormalForms(ideasFile.records)
    /\ ideaPc \in {"loop", "end"} => DistinctNormalForms(all_ideas)

\* A run ended whose two candidates differ as texts and agree once
\* normalized; one of them was added and saved.
C8_Witness ==
    /\ ideaPc = "end"
    /\ Len(generated) = 2
    /\ generated[1] # generated[2]
    /\ NormalForm(generated[1]) = NormalForm(generated[2])
    /\ added = 1
    /\ ideasFile.form = "list"
    /\ Last(ideasFile.records).idea = generated[1]

(***************************************************************************)
(* C10.  After any sequence of ideation runs from a store with pairwise    *)
(* distinct project_slug values, the project_slug values of the store are  *)
(* pairwise distinct; a newly accepted idea whose base slug is in use gets *)
(* the base slug with suffix -2 (then -3, ...); the slug of an existing    *)
(* record is never changed.                                                *)
(***************************************************************************)
DistinctSlugs(recs) ==
    \A i, j \in 1..Len(recs) : i # j => recs[i].project_slug # recs[j].project_slug

SlugsOf(recs) == { recs[i].project_slug : i \in 1..Len(recs) }

IsPrefixOf(a, b) == Len(a) <= Len(b) /\ SubSeq(b, 1, Len(a)) = a

\* The record the step has appended carries the base slug of its idea, or,
\* when that is in use, the base slug with the least unused suffix from 2.
NewSlugOk ==
    Len(all_ideas') = Len(all_ideas) + 1 =>
        LET new == Last(all_ideas')
            base == IF slugify(new.idea) = <<>>
                    THEN S_project_dash \o IsoDate(today)
                    ELSE slugify(new.idea)
            inUse == SlugsOf(all_ideas)
        IN  /\ IsPrefixOf(all_ideas, all_ideas')
            /\ base \notin inUse => new.project_slug = base
            /\ base \in inUse =>
                  \E k \in 2..(Cardinality(inUse) + 2) :
                      /\ new.project_slug = Suffixed(base, k)
                      /\ new.project_slug \notin inUse
                      /\ \A j \in 2..(k - 1) : Suffixed(base, j) \in inUse

C10_UniqueSlugs ==
    /\ [](DistinctSlugs(ideasFile.records))
    /\ [][ideasFile.form = "list" =>
             /\ ideasFile'.form = "list"
             /\ IsPrefixOf(ideasFile.records, ideasFile'.records)]_vars
    /\ [][ideaPc = "loop" => NewSlugOk]_vars

\* The store holds a record whose idea has a base slug that was in use and
\* that carries that base slug with the suffix -3, -2 being taken as well.
C10_Witness ==
    /\ ideasFile.form = "list"
    /\ \E i, j, k \in 1..Len(ideasFile.records) :
          LET recs == ideasFile.records
          IN  /\ recs[i].project_slug = slugify(recs[k].idea)
              /\ recs[j].project_slug = Suffixed(slugify(recs[k].idea), 2)
              /\ recs[k].project_slug = Suffixed(slugify(recs[k].idea), 3)

(***************************************************************************)
(* C11.  An ideation run takes the candidates in generation order,         *)
(* rejecting one that is blacklisted or a duplicate and appending a record *)
(* with status "new" for every other; the store file changes only at the   *)
(* end of a run, to the store as it was followed by the accepted records   *)
(* in generation order, and is left alone when nothing was accepted or the *)
(* generation failed.                                                      *)
(***************************************************************************)
\* The records a store file holds when the run starts.
StoreBefore(file) == IF file.form = "list" THEN file.records ELSE <<>>

NormalFormsOf(recs) == { NormalForm(recs[i].idea) : i \in 1..Len(recs) }

\* The candidates that are accepted, in order, seen being the normal forms
\* of the ideas already in the store.
RECURSIVE AcceptedOf(_, _)
AcceptedOf(cands, seen) ==
    IF cands = <<>> THEN <<>>
    ELSE IF contains_blacklisted_keyword(Head(cands))
            \/ NormalForm(Head(cands)) \in seen
         THEN AcceptedOf(Tail(cands), seen)
         ELSE <<Head(cands)>>
                 \o AcceptedOf(Tail(cands), seen \cup {NormalForm(Head(cands))})

RunAccepted == AcceptedOf(generated, NormalFormsOf(StoreBefore(ideasFile)))

\* The store file after the step: the store before, then one record per
\* accepted candidate.
StoreExtended ==
    LET before == StoreBefore(ideasFile)
        after == ideasFile'.records
    IN  /\ ideasFile'.form = "list"
        /\ Len(after) = Len(before) + Len(RunAccepted)
        /\ SubSeq(after, 1, Len(before)) = before
        /\ \A i \in 1..Len(RunAccepted) :
              /\ after[Len(before) + i].idea = RunAccepted[i]
              /\ after[Len(before) + i].status = "new"
              /\ after[Len(before) + i].date = today

C11_RunAppendsAccepted ==
    [][/\ ideasFile' # ideasFile =>
             /\ ideaPc = "loop" /\ ideaPc' = "end"
             /\ RunAccepted # <<>>
       /\ (ideaPc = "loop" /\ ideaPc' = "end") =>
             IF RunAccepted # <<>> THEN StoreExtended ELSE ideasFile' = ideasFile
       /\ (ideaPc = "generate" /\ ideaPc' = "end") => ideasFile' = ideasFile]_vars

\* A run over a store of one record ended: of its two candidates the first
\* was rejected and the second was saved behind the record.
C11_Witness ==
    /\ ideaPc = "end"
    /\ Len(generated) = 2
    /\ added = 1
    /\ ideasFile.form = "list"
    /\ Len(ideasFile.records) = 2
    /\ ideasFile.records[2].idea = generated[2]
    /\ ideasFile.records[2].status = "new"
    /\ generated[1] # generated[2]

(***************************************************************************)
(* C12.  When the idea store file is structurally corrupt, load_ideas does *)
(* not fail the run: while the run goes on with the store it loaded, that  *)
(* store is empty and the backup file holds the content of the corrupt     *)
(* file, so that the save at the end of the run loses nothing.             *)
(***************************************************************************)
StoreIsCorrupt == ideasFile.form \in {"corrupt", "notlist", "undecodable"}

C12_CorruptStorePreserved ==
    StoreIsCorrupt =>
        /\ ideaPc # "raised"
        /\ ideaPc = "generate" => all_ideas = <<>>
        /\ ideaPc \in {"generate", "loop"} =>
              /\ bakFile.form = ideasFile.form
              /\ bakFile.txt = ideasFile.txt

(***************************************************************************)
(* C13.  ensure_project_initialized is idempotent: when something exists   *)
(* under the name of the slug's state document, a call with any idea text  *)
(* and date leaves it, and everything else on the disk, as it was, so the  *)
(* recorded iterations survive; when nothing exists there, the call writes *)
(* a document for the slug with an empty iteration history.                *)
(***************************************************************************)
BootStateFile == PROJECTS_DIR \o <<project_slug, S_state_json>>

C13_InitIsIdempotent ==
    (bootCalls > 0 /\ exc = "") =>
        /\ \A q \in DOMAIN fs0 : q \in DOMAIN fs /\ fs[q] = fs0[q]
        /\ BootStateFile \in DOMAIN fs
        /\ BootStateFile \notin DOMAIN fs0 =>
              /\ fs[BootStateFile].kind = "file"
              /\ fs[BootStateFile].data.form = "object"
              /\ fs[BootStateFile].data.iterations = <<>>
              /\ fs[BootStateFile].data.meta[1] = project_slug
              /\ fs[BootStateFile].data.meta[2] = idea_text

\* The second call names the slug of a document with history, with an idea
\* text other than the one in the document, and the history is still there.
C13_Witness ==
    /\ bootCalls = 2
    /\ project_slug = S_p
    /\ idea_text = T_todo_x
    /\ StateFile(ProjectP) \in DOMAIN fs0
    /\ fs0[StateFile(ProjectP)].data = DocWithHistory
    /\ fs[StateFile(ProjectP)].data.iterations # <<>>

(***************************************************************************)
(* C14.  apply_changes applies the changes in the order given and merges   *)
(* nothing: applied has one entry per change that took effect, in the      *)
(* order of the change-set, and a file that several of them name is left   *)
(* as the last of them made it (its content when that was a write, absent  *)
(* when that was a delete).                                                *)
(***************************************************************************)
\* The file a change names, as the characters of its path say: the project
\* directory followed by the pieces of the path other than "" and ".".
NamedFile(change) ==
    LET keep(seg) == seg # <<>> /\ seg # <<".">>
    IN  ProjectP \o SelectSeq(SplitSlash(change.path), keep)

\* diskLog[k] is the last operation on its file.
IsLastOnFile(k) == \A j \in (k + 1)..Len(diskLog) : diskLog[j].at # diskLog[k].at

C14_LastWriteWins ==
    /\ Len(applied) = Len(diskLog)
    /\ \A k \in 1..Len(diskLog) :
          LET change == changes[diskLog[k].idx]
          IN  /\ applied[k].path = change.path
              /\ diskLog[k].at = NamedFile(change)
              /\ k > 1 => diskLog[k - 1].idx < diskLog[k].idx
              /\ IsLastOnFile(k) =>
                    IF applied[k].action = A_delete
                    THEN diskLog[k].at \notin DOMAIN fs
                    ELSE /\ diskLog[k].at \in DOMAIN fs
                         /\ fs[diskLog[k].at].kind = "file"
                         /\ fs[diskLog[k].at].data = change.content
    /\ pc = "applied" =>
          \A i \in 1..Len(changes) :
              changes[i].action \in {A_create, A_update} =>
                  \E k \in 1..Len(diskLog) : diskLog[k].idx = i

\* The call returned after writing x and then y to a.py, named a.py and
\* ./a.py: both entries are in applied and the file holds y.
C14_Witness ==
    /\ pc = "applied"
    /\ Len(changes) = 2
    /\ changes[1].path = P_a_py /\ changes[1].content = Text("x")
    /\ changes[2].path = P_dot_a_py /\ changes[2].content = Text("y")
    /\ Len(applied) = 2
    /\ fs[ProjectP \o <<S_a_py>>].data = Text("y")

(***************************************************************************)
(* C15.  For every text, slugify returns at most 60 characters, each of    *)
(* a-z, 0-9 or the separator "-", with no two separators side by side and  *)
(* none at either end; it returns the empty text when the text has no      *)
(* letter or digit.                                                        *)
(***************************************************************************)
LowerAlnum ==
    {"a", "b", "c", "d", "e", "f", "g", "h", "i", "j", "k", "l", "m", "n", "o",
     "p", "q", "r", "s", "t", "u", "v", "w", "x", "y", "z",
     "0", "1", "2", "3", "4", "5", "6", "7", "8", "9"}

UpperAlpha ==
    {"A", "B", "C", "D", "E", "F", "G", "H", "I", "J", "K", "L", "M", "N", "O",
     "P", "Q", "R", "S", "T", "U", "V", "W", "X", "Y", "Z"}

WellFormedSlug(sl) ==
    /\ Len(sl) <= 60
    /\ \A i \in 1..Len(sl) : sl[i] \in LowerAlnum \cup {"-"}
    /\ \A i \in 1..(Len(sl) - 1) : ~(sl[i] = "-" /\ sl[i + 1] = "-")
    /\ sl # <<>> => sl[1] # "-" /\ sl[Len(sl)] # "-"

C15_SlugFormat ==
    slugifyPc = "done" =>
        /\ WellFormedSlug(slugified)
        /\ (\A i \in 1..Len(slugArg) : slugArg[i] \notin LowerAlnum \cup UpperAlpha)
              => slugified = <<>>

(***************************************************************************)
(* C16.  Discovery: when the first loop of main is over, every record of   *)
(* the idea store whose idea text is not empty has its project (named by   *)
(* its project_slug, or by the slug made from its text when it has none)   *)
(* in the sequence of projects to iterate, with a state document on disk;  *)
(* the projects directory is scanned only when the store gave no project.  *)
(***************************************************************************)
Discovered == pc = "load" /\ pi = 1

NotBlank(t) == \E i \in 1..Len(t) : t[i] \notin {" ", "\t", "\n", "\r"}

RecordSlug(rec) ==
    IF rec.project_slug # <<>> THEN rec.project_slug ELSE slugify(Strip(rec.idea))

InSequence(dir) ==
    \E k \in 1..Len(projects_to_iterate) : projects_to_iterate[k] = dir

C16_EveryIdeaDiscovered ==
    Discovered =>
        LET recs == IF ideasFile.form = "list" THEN ideasFile.records ELSE <<>>
            named == { i \in 1..Len(recs) : NotBlank(recs[i].idea) }
        IN  /\ \A i \in named :
                  /\ InSequence(PROJECTS_DIR \o <<RecordSlug(recs[i])>>)
                  /\ PROJECTS_DIR \o <<RecordSlug(recs[i]), S_state_json>> \in DOMAIN fs
            /\ named # {} =>
                  \A k \in 1..Len(projects_to_iterate) :
                      \E i \in named :
                          projects_to_iterate[k] = PROJECTS_DIR \o <<RecordSlug(recs[i])>>

(***************************************************************************)
(* C17.  The iteration run is strictly sequential and reaches the end of   *)
(* the project sequence: the project being generated for, applied to or    *)
(* recorded is the one at the position of the loop, the projects before it *)
(* are finished, and the run stops only when the loop has passed the last  *)
(* project.                                                                *)
(***************************************************************************)
InProject == pc \in {"generate", "apply", "applied"}

C17_Sequential ==
    InProject =>
        /\ pi <= Len(projects_to_iterate)
        /\ proj_dir = projects_to_iterate[pi]

C17_SequentialAndTerminates ==
    /\ C17_Sequential
    /\ pc \in {"done", "raised"} => pi > Len(projects_to_iterate)

(***************************************************************************)
(* C18.  For every project whose iteration completes, the record appended  *)
(* to its state document has today's date, the summary of the change-set   *)
(* and an applied list equal, entry for entry and in order, to the list    *)
(* apply_changes returned for the project in this run.                     *)
(*                                                                         *)
(* As stated, with the summary as the change-set gives it.                 *)
(***************************************************************************)
RecordStep == pc = "applied" /\ pc' = "load"

\* The last record of the project's state document after the step.
Recorded == Last(fs'[proj_dir \o <<S_state_json>>].data.iterations)

C18_AsStated ==
    [][RecordStep =>
          /\ Recorded.date = IsoDate(today)
          /\ Recorded.summary = result.summary
          /\ Recorded.applied = applied]_vars

\* As the code has it: the summary is recorded with the white space at its
\* ends removed.
Trimmed(t) ==
    LET inked == { i \in 1..Len(t) : t[i] \notin {" ", "\t", "\n", "\r"} }
    IN  IF inked = {} THEN <<>>
        ELSE SubSeq(t, CHOOSE i \in inked : \A j \in inked : i <= j,
                       CHOOSE i \in inked : \A j \in inked : i >= j)

C18_RecordIsWhatWasApplied ==
    [][RecordStep =>
          /\ Recorded.date = IsoDate(today)
          /\ Recorded.summary = Trimmed(result.summary)
          /\ Recorded.applied = applied
          /\ Len(fs'[proj_dir \o <<S_state_json>>].data.iterations)
                = Len(state.iterations) + 1]_vars

\* An iteration of p completed whose change-set created a.py and had a
\* summary with spaces around it: the record holds the one applied entry.
C18_Witness ==
    /\ pc = "load"
    /\ proj_dir = ProjectP
    /\ Len(applied) = 1
    /\ result.summary = <<" ", "s", " ">>
    /\ StateFile(ProjectP) \in DOMAIN fs
    /\ LET its == fs[StateFile(ProjectP)].data.iterations
       IN  /\ its # <<>>
           /\ Last(its).applied = applied
           /\ Last(its).summary = <<"s">>

(***************************************************************************)
(* C19.  A crash between computing the iteration record and writing the    *)
(* state file loses that iteration and leaves the state document on disk   *)
(* exactly as it was before the iteration.  fs0 is the disk as it was when *)
(* apply_changes was entered.                                              *)
(***************************************************************************)
C19_CrashKeepsStateDocument ==
    (pc = "raised" /\ crashSite = "before_write") =>
        /\ proj_dir \o <<S_state_json>> \in DOMAIN fs
        /\ fs[proj_dir \o <<S_state_json>>] = fs0[proj_dir \o <<S_state_json>>]

(***************************************************************************)
(* C20.  A change-set cannot destroy a project's history through the state *)
(* document: whatever it did to state.json, once apply_changes has         *)
(* returned the record step leaves on disk a state document that holds     *)
(* every iteration record loaded at the start of the iteration, unchanged  *)
(* and in order, followed by the new record.                               *)
(***************************************************************************)
C20_HistorySurvivesChangeSet ==
    [][pc = "applied" =>
          LET sf == proj_dir \o <<S_state_json>>
              loaded == state.iterations
          IN  /\ sf \in DOMAIN fs'
              /\ fs'[sf].kind = "file"
              /\ fs'[sf].data.form = "object"
              /\ Len(fs'[sf].data.iterations) = Len(loaded) + 1
              /\ SubSeq(fs'[sf].data.iterations, 1, Len(loaded)) = loaded]_vars

=============================================================================
